---- MODULE Spec2Model ----
(***************************************************************************)
(* A model of tokio-irc-client's src/client.rs: the connection futures     *)
(* (ClientConnectFuture, ClientConnectTlsFuture) and the IrcTransport      *)
(* stream/sink with its PING interception and keepalive timeout.           *)
(*                                                                         *)
(* Time is counted in whole seconds, which is what                         *)
(* `last_ping.elapsed().as_secs()` compares.  The framed connection        *)
(* (`Framed<T, IrcCodec>`) is the transport's `inner`: a write buffer of   *)
(* encoded messages (outbuf), the messages the socket has accepted (wire), *)
(* and the frames that have arrived and are not decoded yet (inbound).     *)
(***************************************************************************)
EXTENDS Integers, Sequences, FiniteSets, TLC

(***************************************************************************)
(* Program constant and model bounds                                       *)
(***************************************************************************)
PING_TIMEOUT_IN_SECONDS == 600

\* The peer sends at most MaxFrames frames.
MaxFrames == 2
\* The caller enqueues at most MaxSends messages of its own.
MaxSends == 1
\* Framed's write buffer applies backpressure at 8 KiB; the model counts
\* the buffer in messages and applies it at this many.
BackpressureBoundary == 2

\* The instants the clock visits: between them the elapsed time is just
\* below the timeout (599 s), exactly the timeout (600 s) or above it.
Instants ==
    {0, PING_TIMEOUT_IN_SECONDS - 1, 2 * PING_TIMEOUT_IN_SECONDS - 1}

(***************************************************************************)
(* Messages                                                                *)
(***************************************************************************)
Msg(c, a) == [cmd |-> c, args |-> a]

\* The frames the peer can send: PINGs with no, one and two arguments, and
\* two ordinary messages.
Frames ==
    { Msg("PING", <<>>),
      Msg("PING", <<"a">>),
      Msg("PING", <<"b", "c">>),
      Msg("PRIVMSG", <<"#chan", "hi">>),
      Msg("NOTICE", <<"bot", "hi">>) }

\* The messages the caller sends.
CallerMsgs == { Msg("NICK", <<"bot">>) }

\* message.raw_command() == "PING"
\* (faulty variants: the test folded into the argument test; a prefix comparison)
IsPing_ArgsOnly(m) == m.cmd = "PING" /\ m.args # <<>>
IsPing_StartsWithP(m) == m.cmd \in {"PING", "PRIVMSG", "PONG"}
IsPing(m) == m.cmd = "PING"

\* message.raw_args().next(): the first argument, as an Option.
\* (faulty variant: the last argument)
FirstArg_Last(m) == IF m.args = <<>> THEN <<>> ELSE <<m.args[Len(m.args)]>>
FirstArg(m) == IF m.args = <<>> THEN <<>> ELSE <<m.args[1]>>

\* message::client::pong(host), when it succeeds.
\* (faulty variant: the token is left out)
pong_NoToken(host) == Msg("PONG", <<>>)
pong(host) == Msg("PONG", <<host>>)

\* last_ping.elapsed().as_secs() >= PING_TIMEOUT_IN_SECONDS
\* (faulty variants: > for >=; a timeout one second short)
Expired_Strict(t, last) == t - last > PING_TIMEOUT_IN_SECONDS
Expired_Early(t, last) == t - last >= PING_TIMEOUT_IN_SECONDS - 1
Expired(t, last) == t - last >= PING_TIMEOUT_IN_SECONDS

(***************************************************************************)
(* State                                                                   *)
(***************************************************************************)
VARIABLES
    fut,        \* the connect future: "Client" (none made yet),
                \* "ClientConnectFuture", "TlsErr", "TcpConnecting", "TlsHandshake"
    connector,  \* TlsConnector::builder()...build(): "none", "built", "failed"
    futErr,     \* the Error held by the TlsErr variant
    futRes,     \* what the last poll of the connect future returned
    tcp,        \* TcpStream::connect: "none", "pending", "ok", "failed"
    hs,         \* connect_async: "none", "pending", "ok", "failed"
    registered, \* the resource the last poll of the connect future left the
                \* task registered with for a wake-up: "none", "tcp", "hs"
    pc,         \* the transport: "none" (not made), "idle", "loop" (inside
                \* Stream::poll's loop), "panicked"
    now,        \* the monotonic clock, in seconds
    last_ping,  \* IrcTransport.last_ping
    link,       \* the connection: "open", "eof" (peer closed), "reset"
    inbound,    \* frames that have arrived and are not decoded yet
    decoded,    \* every frame inner.poll() has produced, in order
    delivered,  \* every frame Stream::poll has returned to the caller, in order
    outbuf,     \* Framed's write buffer
    wire,       \* the messages the socket has accepted, in order
    ret,        \* the last operation on the transport that returned, and
                \* what it returned
    rxTimeout,  \* when the last Stream::poll began, 600 s or more had passed
                \* since last_ping
    timedOut,   \* some Stream::poll has failed with ConnectionReset
    unreplied   \* the positions in decoded of the PINGs with an argument whose
                \* reply ended before its PONG was enqueued

connVars == <<fut, connector, futErr, futRes, tcp, hs, registered>>
vars == <<fut, connector, futErr, futRes, tcp, hs, registered, pc, now, last_ping, link,
          inbound, decoded, delivered, outbuf, wire, ret, rxTimeout, timedOut,
          unreplied>>

\* Results of a connect future's poll: Poll<IrcTransport, Error>.
Fut(t, k) == [tag |-> t, kind |-> k]
FutNone == Fut("none", "")
FutNotReady == Fut("NotReady", "")
FutReady == Fut("Ready", "")
FutErr(k) == Fut("Err", k)

\* What an operation on the transport returned.  op is "poll" (Stream::poll),
\* "start_send" or "poll_complete"; item is the Option<Message> of a Ready
\* Stream::poll, as a sequence of at most one message.
Ret(o, t, k, i) == [op |-> o, tag |-> t, kind |-> k, item |-> i]
RetNone == Ret("none", "none", "", <<>>)
\* Stream::poll: Poll<Option<Message>, Error>, or a panic.
RxRunning == Ret("poll", "running", "", <<>>)
RxNotReady == Ret("poll", "NotReady", "", <<>>)
RxReady(opt) == Ret("poll", "Ready", "", opt)
RxErr(k) == Ret("poll", "Err", k, <<>>)
RxPanic == Ret("poll", "panic", "", <<>>)
\* start_send and poll_complete: res is "Ready", "NotReady" or "Err".
TxRet(o, res) == Ret(o, res, IF res = "Err" THEN "Io" ELSE "", <<>>)

\* Every message handed to the framed connection, in enqueue order.
Enqueued == wire \o outbuf

IsPong(m) == m.cmd = "PONG"
IsCallerMsg(m) == m \in CallerMsgs

(***************************************************************************)
(* The framed connection (self.inner)                                      *)
(***************************************************************************)
Outcome(b, w, r) == [buf |-> b, wire |-> w, res |-> r]

\* inner.poll_complete(): write the buffer to the socket until it is empty
\* or the socket would block.  The socket accepts any prefix of the buffer;
\* a reset connection fails the write.
FramedPollComplete(buf, w, l) ==
    IF buf = <<>> THEN {Outcome(buf, w, "Ready")}
    ELSE IF l = "reset" THEN {Outcome(buf, w, "Err")}
    ELSE { Outcome(SubSeq(buf, n + 1, Len(buf)), w \o SubSeq(buf, 1, n),
                   IF n = Len(buf) THEN "Ready" ELSE "NotReady")
           : n \in 0..Len(buf) }

\* inner.start_send(item): a buffer at the backpressure boundary is flushed
\* first and the item is rejected (NotReady) if it is still there.
FramedStartSend(buf, w, l, item) ==
    IF Len(buf) >= BackpressureBoundary
    THEN { IF o.res = "Err" THEN o
           ELSE IF Len(o.buf) >= BackpressureBoundary
                THEN Outcome(o.buf, o.wire, "NotReady")
                ELSE Outcome(Append(o.buf, item), o.wire, "Ready")
           : o \in FramedPollComplete(buf, w, l) }
    ELSE {Outcome(Append(buf, item), w, "Ready")}

\* inner.poll(): the next decoded frame, end of stream, not ready, or an error.
\* Results are "Frame", "End", "NotReady", "Err".
FramedPoll(inb, l) ==
    (IF inb # <<>> THEN {"Frame"} ELSE {})
    \cup (IF inb = <<>> /\ l = "eof" THEN {"End"} ELSE {})
    \cup (IF inb = <<>> /\ l = "open" THEN {"NotReady"} ELSE {})
    \cup (IF l = "reset" THEN {"Err"} ELSE {})

\* Sink::close is not overridden by IrcTransport: the trait's default is
\* self.poll_complete(), which is IrcTransport::poll_complete.
close(buf, w, l) == FramedPollComplete(buf, w, l)

(***************************************************************************)
(* Initial state: a Client exists, nothing is connected.                   *)
(***************************************************************************)
Init ==
    /\ fut = "Client"
    /\ connector = "none"
    /\ futErr = ""
    /\ futRes = FutNone
    /\ tcp = "none"
    /\ hs = "none"
    /\ registered = "none"
    /\ pc = "none"
    /\ now = 0
    /\ last_ping = 0
    /\ link = "open"
    /\ inbound = <<>>
    /\ decoded = <<>>
    /\ delivered = <<>>
    /\ outbuf = <<>>
    /\ wire = <<>>
    /\ ret = RetNone
    /\ rxTimeout = FALSE
    /\ timedOut = FALSE
    /\ unreplied = {}

transportVars == <<pc, last_ping, link, inbound, decoded, delivered, outbuf,
                   wire, ret, rxTimeout, timedOut, unreplied>>

(***************************************************************************)
(* Connection establishment                                                *)
(***************************************************************************)
\* IrcTransport::new(framed)
\* (faulty variant: last_ping starts at the clock's origin)
NewTransport_Epoch ==
    /\ pc' = "idle"
    /\ last_ping' = 0
    /\ UNCHANGED <<link, inbound, decoded, delivered, outbuf, wire, ret,
                   rxTimeout, timedOut, unreplied>>
NewTransport ==
    /\ pc' = "idle"
    /\ last_ping' = now
    /\ UNCHANGED <<link, inbound, decoded, delivered, outbuf, wire, ret,
                   rxTimeout, timedOut, unreplied>>

\* Client::connect
Connect ==
    /\ fut = "Client"
    /\ tcp' = "pending"
    /\ fut' = "ClientConnectFuture"
    /\ UNCHANGED <<connector, futErr, futRes, hs, registered, now, transportVars>>

\* Client::connect_tls; connectorOk is whether TlsConnector::builder() and
\* build() both succeed.
\* (faulty variant: the socket is opened before the connector is built)
ConnectTls_Eager(connectorOk) ==
    /\ fut = "Client"
    /\ tcp' = "pending"
    /\ IF connectorOk
       THEN /\ connector' = "built"
            /\ fut' = "TcpConnecting"
            /\ futErr' = futErr
       ELSE /\ connector' = "failed"
            /\ fut' = "TlsErr"
            /\ futErr' = "Tls"
    /\ UNCHANGED <<futRes, hs, registered, now, transportVars>>
ConnectTls(connectorOk) ==
    /\ fut = "Client"
    /\ IF connectorOk
       THEN /\ connector' = "built"
            /\ tcp' = "pending"
            /\ fut' = "TcpConnecting"
            /\ futErr' = futErr
       ELSE /\ connector' = "failed"
            /\ tcp' = tcp
            /\ fut' = "TlsErr"
            /\ futErr' = "Tls"
    /\ UNCHANGED <<futRes, hs, registered, now, transportVars>>

\* The reactor completes the socket open.
TcpComplete(ok) ==
    /\ tcp = "pending"
    /\ tcp' = IF ok THEN "ok" ELSE "failed"
    /\ UNCHANGED <<fut, connector, futErr, futRes, hs, registered, now,
                   transportVars>>

\* The TLS handshake completes.
HandshakeComplete(ok) ==
    /\ hs = "pending"
    /\ hs' = IF ok THEN "ok" ELSE "failed"
    /\ UNCHANGED <<fut, connector, futErr, futRes, tcp, registered, now,
                   transportVars>>

\* A connect future is polled until it returns Ready or Err; the TlsErr
\* variant can be polled again after its error.
Pollable ==
    \/ futRes \in {FutNone, FutNotReady}
    \/ fut = "TlsErr"

\* try_ready!(future.poll()) on the socket open (lines 109, 167) or on the
\* handshake (line 159): the state of the awaited resource gives the result,
\* with failKind the error kind of a failure.  A pending resource leaves the
\* task registered with it.
\* (faulty variant: a failure is taken for a success)
Await_IgnoreErr(state, failKind) ==
    IF state = "pending" THEN FutNotReady ELSE FutReady
Await(state, failKind) ==
    CASE state = "pending" -> FutNotReady
      [] state = "failed" -> FutErr(failKind)
      [] state = "ok" -> FutReady

\* The TlsErr arm, lines 153-156: mem::replace leaves ErrorKind::Unexpected
\* in the variant and the error that was there is returned.
\* (faulty variant: the placeholder is returned and the error kept)
TakeError_Swapped(error) == [returned |-> "Unexpected", left |-> error]
TakeError(error) == [returned |-> error, left |-> "Unexpected"]

\* The variant after the TcpConnecting arm, lines 165-172: TlsHandshake once
\* the socket is open; try_ready! returns before the assignment otherwise.
\* (faulty variant: a socket failure is stored as the TlsErr variant)
AfterSocket_StoresError(r) ==
    CASE r = FutReady -> "TlsHandshake"
      [] r = FutNotReady -> "TcpConnecting"
      [] OTHER -> "TlsErr"
AfterSocket(r) == IF r = FutReady THEN "TlsHandshake" ELSE "TcpConnecting"

\* tls_connector.connect_async(&domain, tcp_stream), line 168: the first
\* step of the handshake runs at once.  It either blocks on the socket, which
\* registers the task with the socket, or fails at once, which registers
\* nothing; the future it returns is not polled by line 174.
ConnectAsyncStart ==
    { [hs |-> "pending", registered |-> "hs"],
      [hs |-> "failed", registered |-> "none"] }

\* ClientConnectFuture::poll
ClientConnectFuturePoll ==
    /\ fut = "ClientConnectFuture"
    /\ Pollable
    /\ LET r == Await(tcp, "Io") IN
          /\ futRes' = r
          /\ registered' = IF r = FutNotReady THEN "tcp" ELSE "none"
          /\ IF r = FutReady THEN NewTransport ELSE UNCHANGED transportVars
    /\ UNCHANGED <<fut, connector, futErr, tcp, hs, now>>

\* ClientConnectTlsFuture::poll
ClientConnectTlsFuturePoll ==
    /\ fut \in {"TlsErr", "TcpConnecting", "TlsHandshake"}
    /\ Pollable
    /\ CASE fut = "TlsErr" ->
                /\ futRes' = FutErr(TakeError(futErr).returned)
                /\ futErr' = TakeError(futErr).left
                /\ registered' = "none"
                /\ UNCHANGED <<fut, hs, transportVars>>
         [] fut = "TlsHandshake" ->
                LET r == Await(hs, "Tls") IN
                   /\ futRes' = r
                   /\ registered' = IF r = FutNotReady THEN "hs" ELSE "none"
                   /\ IF r = FutReady THEN NewTransport
                                      ELSE UNCHANGED transportVars
                   /\ UNCHANGED <<fut, futErr, hs>>
         [] fut = "TcpConnecting" ->
                LET r == Await(tcp, "Io") IN
                   /\ fut' = AfterSocket(r)
                   /\ IF r = FutReady
                      THEN /\ futRes' = FutNotReady
                           /\ \E h \in ConnectAsyncStart :
                                 /\ hs' = h.hs
                                 /\ registered' = h.registered
                      ELSE /\ futRes' = r
                           /\ registered' = IF r = FutNotReady THEN "tcp"
                                                              ELSE "none"
                           /\ hs' = hs
                   /\ UNCHANGED <<futErr, transportVars>>
    /\ UNCHANGED <<connector, tcp, now>>

(***************************************************************************)
(* The environment: time, the peer, the network                            *)
(***************************************************************************)
\* Time passes until instant t.
Tick(t) ==
    /\ t > now
    /\ now' = t
    /\ UNCHANGED <<connVars, transportVars>>

\* A frame from the peer arrives.
PeerSend(f) ==
    /\ pc # "none"
    /\ link = "open"
    /\ Len(decoded) + Len(inbound) < MaxFrames
    /\ inbound' = Append(inbound, f)
    /\ UNCHANGED <<connVars, now, pc, last_ping, link, decoded, delivered,
                   outbuf, wire, ret, rxTimeout, timedOut, unreplied>>

\* The peer closes its side (end of stream), or the connection breaks.
LinkChange(l) ==
    /\ pc # "none"
    /\ link = "open"
    /\ link' = l
    /\ UNCHANGED <<connVars, now, pc, last_ping, inbound, decoded, delivered,
                   outbuf, wire, ret, rxTimeout, timedOut, unreplied>>

(***************************************************************************)
(* impl Sink for IrcTransport                                              *)
(***************************************************************************)
CallerSent == Len(SelectSeq(Enqueued, IsCallerMsg))

\* IrcTransport::start_send
StartSend(item) ==
    /\ pc = "idle"
    /\ CallerSent < MaxSends
    /\ \E o \in FramedStartSend(outbuf, wire, link, item) :
          /\ outbuf' = o.buf
          /\ wire' = o.wire
          /\ ret' = TxRet("start_send", o.res)
    /\ UNCHANGED <<connVars, now, pc, last_ping, link, inbound, decoded,
                   delivered, rxTimeout, timedOut, unreplied>>

\* Faulty variant: poll_complete makes the keepalive check of Stream::poll.
PollComplete_Checked ==
    /\ pc = "idle"
    /\ IF now - last_ping >= PING_TIMEOUT_IN_SECONDS
       THEN /\ ret' = Ret("poll_complete", "Err", "ConnectionReset", <<>>)
            /\ UNCHANGED <<outbuf, wire>>
       ELSE \E o \in FramedPollComplete(outbuf, wire, link) :
               /\ outbuf' = o.buf
               /\ wire' = o.wire
               /\ ret' = TxRet("poll_complete", o.res)
    /\ UNCHANGED <<connVars, now, pc, last_ping, link, inbound, decoded,
                   delivered, rxTimeout, timedOut, unreplied>>

\* IrcTransport::poll_complete
PollComplete ==
    /\ pc = "idle"
    /\ \E o \in FramedPollComplete(outbuf, wire, link) :
          /\ outbuf' = o.buf
          /\ wire' = o.wire
          /\ ret' = TxRet("poll_complete", o.res)
    /\ UNCHANGED <<connVars, now, pc, last_ping, link, inbound, decoded,
                   delivered, rxTimeout, timedOut, unreplied>>

(***************************************************************************)
(* impl Stream for IrcTransport                                            *)
(***************************************************************************)
\* Faulty variant: the timeout branch restarts the keepalive clock.
PollBegin_ResetsTimer ==
    /\ pc = "idle"
    /\ rxTimeout' = (now - last_ping >= 600)
    /\ IF Expired(now, last_ping)
       THEN /\ \E o \in close(outbuf, wire, link) :
                  /\ outbuf' = o.buf
                  /\ wire' = o.wire
                  /\ IF o.res = "Err"
                     THEN /\ ret' = RxErr("Io")
                          /\ timedOut' = timedOut
                     ELSE /\ ret' = RxErr("ConnectionReset")
                          /\ timedOut' = TRUE
            /\ pc' = "idle"
            /\ last_ping' = now
       ELSE /\ pc' = "loop"
            /\ ret' = RxRunning
            /\ UNCHANGED <<outbuf, wire, timedOut, last_ping>>
    /\ UNCHANGED <<connVars, now, link, inbound, decoded, delivered,
                   unreplied>>

\* Faulty variant: the timeout is reported once, then reading resumes.
PollBegin_Once ==
    /\ pc = "idle"
    /\ rxTimeout' = (now - last_ping >= 600)
    /\ IF Expired(now, last_ping) /\ ~timedOut
       THEN /\ \E o \in close(outbuf, wire, link) :
                  /\ outbuf' = o.buf
                  /\ wire' = o.wire
                  /\ IF o.res = "Err"
                     THEN /\ ret' = RxErr("Io")
                          /\ timedOut' = timedOut
                     ELSE /\ ret' = RxErr("ConnectionReset")
                          /\ timedOut' = TRUE
            /\ pc' = "idle"
       ELSE /\ pc' = "loop"
            /\ ret' = RxRunning
            /\ UNCHANGED <<outbuf, wire, timedOut>>
    /\ UNCHANGED <<connVars, now, last_ping, link, inbound, decoded, delivered,
                   unreplied>>

\* Stream::poll, lines 213-216: the keepalive check, and the entry to the loop.
PollBegin ==
    /\ pc = "idle"
    /\ rxTimeout' = (now - last_ping >= 600)
    /\ IF Expired(now, last_ping)
       THEN /\ \E o \in close(outbuf, wire, link) :
                  /\ outbuf' = o.buf
                  /\ wire' = o.wire
                  /\ IF o.res = "Err"
                     THEN /\ ret' = RxErr("Io")
                          /\ timedOut' = timedOut
                     ELSE /\ ret' = RxErr("ConnectionReset")
                          /\ timedOut' = TRUE
            /\ pc' = "idle"
       ELSE /\ pc' = "loop"
            /\ ret' = RxRunning
            /\ UNCHANGED <<outbuf, wire, timedOut>>
    /\ UNCHANGED <<connVars, now, last_ping, link, inbound, decoded, delivered,
                   unreplied>>

\* Faulty variant: the reply ignores a failure of the flush (line 228
\* without the question mark).
PongReply_SwallowFlush(host, pongOk) ==
    IF ~pongOk
    THEN /\ ret' = RxErr("Message")
         /\ pc' = "idle"
         /\ unreplied' = unreplied \cup {Len(decoded) + 1}
         /\ UNCHANGED <<outbuf, wire>>
    ELSE \E s \in FramedStartSend(outbuf, wire, link, pong(host)) :
            CASE s.res = "Err" ->
                     /\ ret' = RxErr("Io")
                     /\ pc' = "idle"
                     /\ unreplied' = unreplied \cup {Len(decoded) + 1}
                     /\ outbuf' = s.buf
                     /\ wire' = s.wire
              [] s.res = "NotReady" ->
                     /\ ret' = RxPanic
                     /\ pc' = "panicked"
                     /\ unreplied' = unreplied \cup {Len(decoded) + 1}
                     /\ outbuf' = s.buf
                     /\ wire' = s.wire
              [] s.res = "Ready" ->
                     \E c \in FramedPollComplete(s.buf, s.wire, link) :
                        /\ outbuf' = c.buf
                        /\ wire' = c.wire
                        /\ unreplied' = unreplied
                        /\ ret' = ret
                        /\ pc' = "loop"

\* The reply to a PING whose first argument is host, lines 224-228:
\* construct the PONG, enqueue it, assert it was accepted, flush.
\* pongOk is whether message::client::pong(host) succeeds.
PongReply(host, pongOk) ==
    IF ~pongOk
    THEN /\ ret' = RxErr("Message")
         /\ pc' = "idle"
         /\ unreplied' = unreplied \cup {Len(decoded) + 1}
         /\ UNCHANGED <<outbuf, wire>>
    ELSE \E s \in FramedStartSend(outbuf, wire, link, pong(host)) :
            CASE s.res = "Err" ->
                     /\ ret' = RxErr("Io")
                     /\ pc' = "idle"
                     /\ unreplied' = unreplied \cup {Len(decoded) + 1}
                     /\ outbuf' = s.buf
                     /\ wire' = s.wire
              [] s.res = "NotReady" ->
                     /\ ret' = RxPanic
                     /\ pc' = "panicked"
                     /\ unreplied' = unreplied \cup {Len(decoded) + 1}
                     /\ outbuf' = s.buf
                     /\ wire' = s.wire
              [] s.res = "Ready" ->
                     \E c \in FramedPollComplete(s.buf, s.wire, link) :
                        /\ outbuf' = c.buf
                        /\ wire' = c.wire
                        /\ unreplied' = unreplied
                        /\ IF c.res = "Err"
                           THEN /\ ret' = RxErr("Io")
                                /\ pc' = "idle"
                           ELSE /\ ret' = ret
                                /\ pc' = "loop"

\* Stream::poll, lines 218-233: one turn of the loop.
PollLoop ==
    /\ pc = "loop"
    /\ \E r \in FramedPoll(inbound, link) :
        CASE r = "NotReady" ->
                 /\ ret' = RxNotReady
                 /\ pc' = "idle"
                 /\ UNCHANGED <<last_ping, inbound, decoded, delivered, outbuf,
                                wire, unreplied>>
          [] r = "Err" ->
                 /\ ret' = RxErr("Io")
                 /\ pc' = "idle"
                 /\ UNCHANGED <<last_ping, inbound, decoded, delivered, outbuf,
                                wire, unreplied>>
          [] r = "End" ->
                 /\ ret' = RxReady(<<>>)
                 /\ pc' = "idle"
                 /\ UNCHANGED <<last_ping, inbound, decoded, delivered, outbuf,
                                wire, unreplied>>
          [] r = "Frame" ->
                 LET message == Head(inbound) IN
                 /\ inbound' = Tail(inbound)
                 /\ decoded' = Append(decoded, message)
                 /\ IF IsPing(message)
                    THEN /\ last_ping' = now
                         /\ delivered' = delivered
                         /\ IF FirstArg(message) = <<>>
                            THEN UNCHANGED <<ret, pc, outbuf, wire, unreplied>>
                            ELSE \E pongOk \in BOOLEAN :
                                    PongReply(FirstArg(message)[1], pongOk)
                    ELSE /\ ret' = RxReady(<<message>>)
                         /\ pc' = "idle"
                         /\ delivered' = Append(delivered, message)
                         /\ UNCHANGED <<last_ping, outbuf, wire, unreplied>>
    /\ UNCHANGED <<connVars, now, link, rxTimeout, timedOut>>

(***************************************************************************)
(* Specification                                                           *)
(***************************************************************************)
Next ==
    \/ Connect
    \/ \E ok \in BOOLEAN : ConnectTls(ok)
    \/ \E ok \in BOOLEAN : TcpComplete(ok)
    \/ \E ok \in BOOLEAN : HandshakeComplete(ok)
    \/ ClientConnectFuturePoll
    \/ ClientConnectTlsFuturePoll
    \/ \E t \in Instants : Tick(t)
    \/ \E f \in Frames : PeerSend(f)
    \/ \E l \in {"eof", "reset"} : LinkChange(l)
    \/ \E m \in CallerMsgs : StartSend(m)
    \/ PollComplete
    \/ PollBegin
    \/ PollLoop

Spec == Init /\ [][Next]_vars

(***************************************************************************)
(* Properties                                                              *)
(***************************************************************************)
HasPingCommand(m) == m.cmd = "PING"
NoPingCommand(m) == m.cmd # "PING"
Last(q) == q[Len(q)]
IsPrefix(p, q) == Len(p) <= Len(q) /\ SubSeq(q, 1, Len(p)) = p

\* The PONGs handed to the framed connection, in enqueue order.
Pongs == SelectSeq(Enqueued, IsPong)

\* The PONGs owed to the frames d[i..], in order: one per PING that carries
\* an argument and whose position is not in skip, echoing its first argument.
RECURSIVE OwedPongs(_, _, _)
OwedPongs(d, skip, i) ==
    IF i > Len(d) THEN <<>>
    ELSE (IF d[i].cmd = "PING" /\ d[i].args # <<>> /\ i \notin skip
          THEN <<Msg("PONG", <<d[i].args[1]>>)>>
          ELSE <<>>) \o OwedPongs(d, skip, i + 1)

\* C1: no frame whose command is PING is ever returned by Stream::poll:
\* none is among the frames returned so far, and the item of the last
\* result, if any, is not one.
C1_NoPingReturned ==
    /\ \A i \in 1..Len(delivered) : delivered[i].cmd # "PING"
    /\ ret.op = "poll" => \A i \in 1..Len(ret.item) : ret.item[i].cmd # "PING"

\* C1 witness: PINGs with and without an argument were consumed and the
\* receive returned the ordinary frame that followed.
C1_Witness ==
    /\ Len(decoded) = 2
    /\ decoded[1] = Msg("PING", <<>>)
    /\ ret = RxReady(<<Msg("PRIVMSG", <<"#chan", "hi">>)>>)

\* C2 (as claimed): at every point the number of PONGs enqueued equals the
\* number of PING frames consumed.
C2_Original ==
    Len(Pongs) = Len(SelectSeq(decoded, HasPingCommand))

\* C2 (amended): a step that consumes a PING carrying an argument either
\* enqueues exactly one PONG carrying the PING's first argument, or enqueues
\* nothing and ends the receive with an error or a panic; a step that
\* consumes a PING without argument, or any other frame, enqueues nothing;
\* and no other step enqueues a PONG.
C2_Amended ==
    [][ IF decoded' # decoded
        THEN LET f == Last(decoded') IN
             IF f.cmd = "PING" /\ f.args # <<>>
             THEN \/ Enqueued' = Append(Enqueued, Msg("PONG", <<f.args[1]>>))
                  \/ /\ Enqueued' = Enqueued
                     /\ ret'.op = "poll"
                     /\ ret'.tag \in {"Err", "panic"}
             ELSE Enqueued' = Enqueued
        ELSE Pongs' = Pongs ]_vars

\* C2 witness: a PING without argument and a PING with two arguments were
\* consumed, and the one PONG enqueued echoes the first of the two.
C2_Witness ==
    /\ decoded = <<Msg("PING", <<>>), Msg("PING", <<"b", "c">>)>>
    /\ Pongs = <<Msg("PONG", <<"b">>)>>

\* C3 (as claimed): a receive that began 600 s or more after last_ping
\* fails with ConnectionReset and nothing else.
C3_Original ==
    (rxTimeout /\ ret.op = "poll") => ret = RxErr("ConnectionReset")

\* C3 (amended): a receive that began 600 s or more after last_ping fails;
\* with ConnectionReset when the close it performs first (a flush of the
\* write buffer) does not fail, and with the close's own I/O error when it
\* does, which needs a broken connection and a non-empty write buffer.
C3_Amended ==
    (rxTimeout /\ ret.op = "poll") =>
        /\ ret.tag = "Err"
        /\ \/ ret.kind = "ConnectionReset"
           \/ ret.kind = "Io" /\ link = "reset" /\ outbuf # <<>>

\* C3 witness: a receive began exactly 600 s after last_ping and failed
\* with ConnectionReset.
C3_Witness ==
    /\ rxTimeout
    /\ now - last_ping = 600
    /\ ret = RxErr("ConnectionReset")

\* C4 (as claimed): once a receive has failed because of the keepalive
\* timeout the connection is closed: nothing more is delivered to the peer,
\* so no message enqueued afterwards is.
C4_Original ==
    [][ timedOut => wire' = wire ]_vars

\* C5: a receive that began less than 600 s after last_ping never fails
\* with ConnectionReset, and a step that returns a (non-PING) frame to the
\* caller leaves last_ping, hence the timeout, where it was.
C5_NoEarlyTimeout ==
    [][ /\ ret' = RxErr("ConnectionReset") => rxTimeout'
        /\ delivered' # delivered => last_ping' = last_ping ]_vars

\* C5 witness: two non-PING frames were received, the second 599 s after
\* last_ping, and the receive returned it.
C5_Witness ==
    /\ now - last_ping = 599
    /\ ~rxTimeout
    /\ Len(delivered) = 2
    /\ ret.op = "poll"
    /\ ret.tag = "Ready"
    /\ ret.item # <<>>

\* C6: the frames returned to the caller are the decoded frames with the
\* PINGs removed, each once and in decode order, and the item of a
\* successful receive is the last of them.
C6_DeliveredIsDecodedWithoutPings ==
    /\ delivered = SelectSeq(decoded, NoPingCommand)
    /\ (ret.op = "poll" /\ ret.tag = "Ready" /\ ret.item # <<>>) =>
           /\ delivered # <<>>
           /\ ret.item = <<Last(delivered)>>

\* C6 witness: two different ordinary frames were returned in decode order.
C6_Witness ==
    /\ delivered = <<Msg("NOTICE", <<"bot", "hi">>), Msg("PRIVMSG", <<"#chan", "hi">>)>>
    /\ ret = RxReady(<<Msg("PRIVMSG", <<"#chan", "hi">>)>>)

\* C7: last_ping is the instant the transport is created, never moves
\* backward, and changes only in a step of a receive that consumes a PING.
C7_LastPing ==
    [][ /\ (pc = "none" /\ pc' # "none") => last_ping' = now
        /\ pc # "none" => last_ping' >= last_ping
        /\ (pc # "none" /\ last_ping' # last_ping) =>
               /\ pc = "loop"
               /\ decoded' # decoded
               /\ Last(decoded').cmd = "PING" ]_vars

\* C7 witness: a PING moved last_ping forward, and then a non-PING frame
\* was received and a message was sent and flushed.
C7_Witness ==
    /\ last_ping = 599
    /\ Len(decoded) = 2
    /\ decoded[1].cmd = "PING"
    /\ decoded[2].cmd # "PING"
    /\ ret = TxRet("poll_complete", "Ready")
    /\ wire # <<>>

\* C8 (as claimed): when the receive path pulls the next frame or has
\* returned to the caller, no PONG is left in the write buffer.
C8_Original ==
    (\/ pc = "loop"
     \/ ret.op = "poll" /\ ret.tag \in {"Ready", "NotReady"}) =>
        SelectSeq(outbuf, IsPong) = <<>>

\* C9 (as claimed): when a non-PING frame has been returned, the PONGs for
\* all PINGs with a token decoded before it have been enqueued, and the
\* PONGs are enqueued in the order of their PINGs.
C9_Original ==
    \A j \in 1..Len(decoded) :
        decoded[j].cmd # "PING" =>
            IsPrefix(OwedPongs(SubSeq(decoded, 1, j), {}, 1), Pongs)

\* C9 (amended): at every point, so also when a later frame is returned,
\* the PONGs enqueued are exactly the PONGs for the consumed PINGs with a
\* token, in the order of the PINGs, except for the PINGs whose reply ended
\* with an error or a panic before the PONG was enqueued.
C9_Amended ==
    Pongs = OwedPongs(decoded, unreplied, 1)

\* C9 witness: two PINGs with different tokens were answered in order.
C9_Witness ==
    /\ decoded = <<Msg("PING", <<"b", "c">>), Msg("PING", <<"a">>)>>
    /\ Pongs = <<Msg("PONG", <<"b">>), Msg("PONG", <<"a">>)>>

\* C10: when the TLS connector fails to build, connect_tls opens no socket
\* and returns the TlsErr variant, and the first poll of that future fails
\* with the Tls error.
C10_TlsContextFailure ==
    [][ connector' = "failed" =>
            /\ fut' = "TlsErr"
            /\ tcp' = "none"
            /\ (futRes = FutNone /\ futRes' # FutNone) => futRes' = FutErr("Tls") ]_vars

\* C10 witness: the connector failed and the first poll returned the Tls error.
C10_Witness ==
    /\ connector = "failed"
    /\ futRes = FutErr("Tls")

\* C11 (as claimed): in the TlsErr variant every poll, the second and later
\* ones included, returns the Tls error.
C11_Original ==
    (fut = "TlsErr" /\ futRes # FutNone) => futRes = FutErr("Tls")

\* C11 (amended): in the TlsErr variant every poll fails, no socket is ever
\* opened and no transport made; the first poll returns the Tls error and
\* leaves ErrorKind::Unexpected in the variant, which is what every later
\* poll returns.
C11_Amended ==
    fut = "TlsErr" =>
        /\ tcp = "none" /\ hs = "none" /\ pc = "none" /\ registered = "none"
        /\ \/ futRes = FutNone /\ futErr = "Tls"
           \/ futRes = FutErr("Tls") /\ futErr = "Unexpected"
           \/ futRes = FutErr("Unexpected") /\ futErr = "Unexpected"

\* C11 witness: the TlsErr variant was polled at least twice.
C11_Witness ==
    /\ fut = "TlsErr"
    /\ futRes = FutErr("Unexpected")

TlsVariants == {"TlsErr", "TcpConnecting", "TlsHandshake"}

\* The parts of C12 that concern the order of the variants: the variant only
\* changes from construction to one of the three and from TcpConnecting to
\* TlsHandshake; TlsErr is entered at construction only; the future
\* succeeds from TlsHandshake only; a socket failure, and a step after the
\* future has resolved, leave the variant as it is.
ForwardOnly ==
    /\ fut' # fut =>
           <<fut, fut'>> \in { <<"Client", "ClientConnectFuture">>,
                               <<"Client", "TlsErr">>,
                               <<"Client", "TcpConnecting">>,
                               <<"TcpConnecting", "TlsHandshake">> }
    /\ (fut \in TlsVariants /\ futRes # FutReady /\ futRes' = FutReady) =>
           fut = "TlsHandshake" /\ fut' = "TlsHandshake" /\ hs = "ok"
    /\ (fut = "TcpConnecting" /\ tcp = "failed") => fut' = "TcpConnecting"
    /\ (fut \in TlsVariants /\ futRes.tag \in {"Ready", "Err"}) => fut' = fut

\* C12 (as claimed): the variants only move forward, and a poll that
\* reports not-yet-ready leaves the variant unchanged.
C12_Original ==
    [][ /\ ForwardOnly
        /\ (fut \in TlsVariants /\ futRes' = FutNotReady) => fut' = fut ]_vars

\* C12 (amended): the variants only move forward; a poll that reports
\* not-yet-ready because the socket open or the handshake is still pending
\* leaves the variant unchanged, and the poll in which the socket open has
\* completed moves from TcpConnecting to TlsHandshake and reports
\* not-yet-ready.
C12_Amended ==
    [][ /\ ForwardOnly
        /\ (fut = "TcpConnecting" /\ tcp = "pending") => fut' = fut
        /\ (fut = "TcpConnecting" /\ fut' = "TlsHandshake") =>
               tcp = "ok" /\ futRes' = FutNotReady ]_vars

\* C12 witness: the future went through TcpConnecting and TlsHandshake and
\* resolved with a transport.
C12_Witness ==
    /\ fut = "TlsHandshake"
    /\ futRes = FutReady
    /\ pc = "idle"

\* C13 (as claimed): whenever a poll of the secure-connect future reports
\* not-yet-ready, the task is registered with the socket open or with the
\* handshake.
C13_Original ==
    (fut \in TlsVariants /\ futRes = FutNotReady) => registered \in {"tcp", "hs"}

\* C14: a plain connect future resolves with a transport only when the
\* socket open has succeeded; when it has failed the future fails with the
\* I/O error and there is no transport; while it is pending every poll
\* reports not-yet-ready.
C14_PlainConnect ==
    fut = "ClientConnectFuture" =>
        /\ pc # "none" <=> futRes = FutReady
        /\ futRes = FutReady => tcp = "ok"
        /\ futRes.tag = "Err" => futRes = FutErr("Io") /\ tcp = "failed"
        /\ tcp = "failed" => futRes \in {FutNone, FutNotReady, FutErr("Io")}
        /\ tcp = "pending" => futRes \in {FutNone, FutNotReady}

\* C14 witness: the socket open failed and the future failed with the I/O
\* error.
C14_Witness ==
    /\ fut = "ClientConnectFuture"
    /\ tcp = "failed"
    /\ futRes = FutErr("Io")
    /\ pc = "none"

\* The sink operations, as recorded in ret.op.
SinkOps == {"start_send", "poll_complete"}

\* C15: the keepalive timeout is detected only by a receive attempt.  The
\* passing of time changes nothing but the clock; the timeout is recorded
\* only by a step of Stream::poll; and start_send and poll_complete depend
\* on the write buffer and the connection alone, whatever the time: they
\* fail only with the I/O error of a broken connection, never with
\* connection-reset, and poll_complete does what the framed connection's
\* flush does.
C15_TimeoutIsLazy ==
    [][ /\ now' # now =>
              UNCHANGED <<connVars, pc, last_ping, link, inbound, decoded,
                          delivered, outbuf, wire, ret, rxTimeout, timedOut,
                          unreplied>>
        /\ (timedOut' /\ ~timedOut) => pc = "idle" /\ ret'.op = "poll"
        /\ (ret'.op \in SinkOps /\ ret'.tag = "Err") =>
              link' = "reset" /\ ret'.kind = "Io"
        /\ (ret'.op = "poll_complete"
              /\ <<outbuf, wire, ret>>' # <<outbuf, wire, ret>>) =>
              \E o \in FramedPollComplete(outbuf, wire, link) :
                  /\ outbuf' = o.buf
                  /\ wire' = o.wire
                  /\ ret'.tag = o.res ]_vars

\* C15 witness: the timeout has elapsed, no receive has been attempted
\* since, and a flush has just delivered the caller's message.
C15_Witness ==
    /\ now - last_ping >= PING_TIMEOUT_IN_SECONDS
    /\ ~rxTimeout
    /\ ~timedOut
    /\ ret = TxRet("poll_complete", "Ready")
    /\ \E i \in 1..Len(wire) : IsCallerMsg(wire[i])

\* A step of the loop of Stream::poll.
LoopStep == pc = "loop" /\ (ret' # ret \/ decoded' # decoded)

\* The loop step consumes a PING that has a first argument.
RepliedPing ==
    /\ LoopStep
    /\ decoded' # decoded
    /\ Last(decoded').cmd = "PING"
    /\ Last(decoded').args # <<>>

\* C16: no failure inside a receive attempt is swallowed.  A read from a
\* broken connection with nothing buffered fails the attempt with the I/O
\* error; a PING whose reply cannot be flushed or enqueued because the
\* connection is broken fails the attempt; a PING with a first argument
\* that leaves the attempt running has its PONG enqueued; an attempt that
\* leaves a PING unanswered ends in an error (or in the panic of the
\* assertion of line 226, when the buffer was at the backpressure
\* boundary); and a failing attempt returns no frame, least of all the
\* PING.
C16_NothingSwallowed ==
    [][ /\ (LoopStep /\ inbound = <<>> /\ link = "reset") => ret' = RxErr("Io")
        /\ (RepliedPing /\ link = "reset") =>
               ret'.tag = "Err" /\ ret'.kind \in {"Io", "Message"}
        /\ (RepliedPing /\ pc' = "loop") =>
               /\ Len(Pongs') = Len(Pongs) + 1
               /\ Last(Pongs').args = <<Last(decoded').args[1]>>
        /\ (LoopStep /\ unreplied' # unreplied) =>
               /\ ret'.tag \in {"Err", "panic"}
               /\ ret'.tag = "panic" => Len(outbuf) >= BackpressureBoundary
        /\ (LoopStep /\ ret'.tag = "Err") =>
               /\ pc' = "idle"
               /\ ret'.item = <<>>
               /\ delivered' = delivered
               /\ \A i \in 1..Len(delivered') : delivered'[i].cmd # "PING" ]_vars

\* C16 witness: a PING with a first argument was consumed on a broken
\* connection, its PONG was enqueued but could not be flushed, and the
\* receive attempt failed with the I/O error.
C16_Witness ==
    /\ pc = "idle"
    /\ ret = RxErr("Io")
    /\ ~rxTimeout
    /\ link = "reset"
    /\ decoded # <<>>
    /\ Last(decoded).cmd = "PING"
    /\ Last(decoded).args # <<>>
    /\ outbuf # <<>>
    /\ Last(outbuf) = Msg("PONG", <<Last(decoded).args[1]>>)
    /\ delivered = <<>>

\* C17 (as claimed): the assertion of line 226 always holds, so a receive
\* attempt never panics.
C17_Original == pc # "panicked"

\* A receive attempt starts (Stream::poll is entered) and does something.
ReceiveStarts ==
    /\ pc = "idle"
    /\ ret'.op = "poll"
    /\ <<pc, ret, rxTimeout, timedOut, outbuf, wire>>'
          # <<pc, ret, rxTimeout, timedOut, outbuf, wire>>

\* C18: a receive attempt made when the time since last_ping has reached
\* the timeout fails, consumes no inbound frame, enqueues no PONG (what is
\* enqueued is the same, flushed or not) and leaves last_ping unchanged,
\* whatever is waiting to be decoded.
C18_TimeoutComesFirst ==
    [][ (ReceiveStarts /\ now - last_ping >= PING_TIMEOUT_IN_SECONDS) =>
            /\ ret'.tag = "Err"
            /\ ret'.kind \in {"ConnectionReset", "Io"}
            /\ pc' = "idle"
            /\ UNCHANGED <<inbound, decoded, delivered, last_ping, unreplied>>
            /\ Enqueued' = Enqueued ]_vars

\* C18 witness: the receive attempt failed with connection-reset while a
\* PING with a first argument is waiting; nothing was ever decoded, no
\* PONG was enqueued and last_ping is still the time of construction.
C18_Witness ==
    /\ ret = RxErr("ConnectionReset")
    /\ rxTimeout
    /\ inbound # <<>>
    /\ Head(inbound).cmd = "PING"
    /\ Head(inbound).args # <<>>
    /\ decoded = <<>>
    /\ Pongs = <<>>
    /\ last_ping = 0
    /\ now > 0

\* C19: once a receive attempt has failed because of the timeout, the
\* timeout stays elapsed, the loop of Stream::poll is never entered again,
\* and every later receive attempt has failed too, in the timeout branch.
C19_TimeoutIsPermanent ==
    timedOut =>
        /\ pc = "idle"
        /\ now - last_ping >= PING_TIMEOUT_IN_SECONDS
        /\ ret.op = "poll" => ret.tag = "Err" /\ rxTimeout

\* C19 witness: after the timeout a PING has arrived and a later receive
\* attempt has failed again (here with the I/O error of the flush that
\* close makes on a connection broken in the meantime) without reading
\* it.
C19_Witness ==
    /\ timedOut
    /\ ret = RxErr("Io")
    /\ inbound # <<>>
    /\ Head(inbound).cmd = "PING"
    /\ decoded = <<>>

====
